---------------------------- MODULE Spec2Model ----------------------------
(***************************************************************************)
(* Model of the `dfx upgrade` command (src/dfx/src/commands/upgrade.rs).   *)
(*                                                                         *)
(* One invocation of exec is a sequential process; pc is its position in   *)
(* the code.  The remote server (manifest response, archive stream) and    *)
(* the file system are the environment: their answers are chosen           *)
(* nondeterministically at the step that consumes them.                    *)
(***************************************************************************)
EXTENDS Integers, Sequences, FiniteSets, TLC

(* ------------------------------ bounds --------------------------------- *)
\* largest major, minor and patch number drawn for is_upgrade_necessary
MaxNum == 1
\* longest pre-release identifier list drawn for is_upgrade_necessary
MaxPreLen == 2
\* largest number of tar entries one archive stream delivers
MaxEntries == 2

(* --------------------------- Option values ----------------------------- *)
None == [some |-> FALSE]
Some(v) == [some |-> TRUE, val |-> v]

(* ------------------------- semver::Version ----------------------------- *)
\* pre-release identifiers: Identifier::Numeric(u64) | Identifier::AlphaNumeric(String)
Num(n) == [numeric |-> TRUE, n |-> n]
Alpha(s) == [numeric |-> FALSE, s |-> s]

Version(major, minor, patch, pre) ==
    [major |-> major, minor |-> minor, patch |-> patch, pre |-> pre]

\* rank of an alphanumeric identifier in the byte-wise (ASCII) order of String
AlphaRank(s) ==
    CASE s = "alpha" -> 1
      [] s = "beta" -> 2
      [] OTHER -> 3

CmpNat(a, b) == IF a < b THEN -1 ELSE IF a > b THEN 1 ELSE 0

\* derived Ord of Identifier: every Numeric is below every AlphaNumeric
CmpIdent(x, y) ==
    IF x.numeric /\ y.numeric THEN CmpNat(x.n, y.n)
    ELSE IF x.numeric THEN -1
    ELSE IF y.numeric THEN 1
    ELSE CmpNat(AlphaRank(x.s), AlphaRank(y.s))

\* Ord of Vec<Identifier>: lexicographic, a proper prefix is smaller
RECURSIVE CmpPre(_, _)
CmpPre(p, q) ==
    IF p = <<>> /\ q = <<>> THEN 0
    ELSE IF p = <<>> THEN -1
    ELSE IF q = <<>> THEN 1
    ELSE LET c == CmpIdent(Head(p), Head(q))
         IN  IF c # 0 THEN c ELSE CmpPre(Tail(p), Tail(q))

\* faulty variant of CmpVersion: the pre-release lists are compared as plain lists, so
\* that a release is below its own pre-releases
CmpVersion_PlainPre(a, b) ==
    IF a.major # b.major THEN CmpNat(a.major, b.major)
    ELSE IF a.minor # b.minor THEN CmpNat(a.minor, b.minor)
    ELSE IF a.patch # b.patch THEN CmpNat(a.patch, b.patch)
    ELSE CmpPre(a.pre, b.pre)

\* Ord of Version: major, minor, patch, then the pre-release lists, where a
\* version without pre-release is above the same version with one
CmpVersion(a, b) ==
    IF a.major # b.major THEN CmpNat(a.major, b.major)
    ELSE IF a.minor # b.minor THEN CmpNat(a.minor, b.minor)
    ELSE IF a.patch # b.patch THEN CmpNat(a.patch, b.patch)
    ELSE IF a.pre = <<>> /\ b.pre = <<>> THEN 0
    ELSE IF a.pre = <<>> THEN 1
    ELSE IF b.pre = <<>> THEN -1
    ELSE CmpPre(a.pre, b.pre)

\* faulty variants of VersionGt: `>=` for `>`, and `<` for `>`
VersionGt_Ge(latest, current) == CmpVersion(latest, current) >= 0
VersionGt_Lt(latest, current) == CmpVersion(latest, current) = -1

\* `latest > current` (upgrade.rs:81 and upgrade.rs:166)
VersionGt(latest, current) == CmpVersion(latest, current) = 1

\* is_upgrade_necessary(latest_version: Option<Version>, current: Version)
is_upgrade_necessary(latest_version, current) ==
    IF latest_version.some THEN VersionGt(latest_version.val, current) ELSE TRUE

\* Version::parse on the version texts the model draws: the texts that are
\* not of the form major.minor.patch[-pre] are rejected
VersionTexts ==
    {"0.3.1", "0.4.0", "0.4.1", "0.4.1-beta.1", "0.5.0-alpha", "not-a-version", "0.4"}

parse_semver(text) ==
    CASE text = "0.3.1" -> Some(Version(0, 3, 1, <<>>))
      [] text = "0.4.0" -> Some(Version(0, 4, 0, <<>>))
      [] text = "0.4.1" -> Some(Version(0, 4, 1, <<>>))
      [] text = "0.4.1-beta.1" -> Some(Version(0, 4, 1, <<Alpha("beta"), Num(1)>>))
      [] text = "0.5.0-alpha" -> Some(Version(0, 5, 0, <<Alpha("alpha")>>))
      [] OTHER -> None

(* ------------------------------ HTTP ----------------------------------- *)
\* status codes the manifest endpoint answers with
Statuses == {200, 404, 500, 599}

\* faulty variant of is_success: only server errors count as failures
is_success_Below500(status) == 200 <= status /\ status <= 499

\* StatusCode::is_success: 200..=299
is_success(status) == 200 <= status /\ status <= 299

\* StatusCode::canonical_reason: None for a code without a registered phrase
canonical_reason(status) ==
    CASE status = 200 -> Some("OK")
      [] status = 404 -> Some("Not Found")
      [] status = 500 -> Some("Internal Server Error")
      [] OTHER -> None

unwrap_or(opt, default) == IF opt.some THEN opt.val ELSE default

(* ------------------------- manifest decoding --------------------------- *)
NoTags == [t \in {} |-> ""]

\* response bodies: text that is not JSON, JSON objects lacking a field of
\* Manifest, and JSON objects with both fields
ManifestBodies ==
    { [raw |-> "Not a valid JSON object"],
      [tags |-> [latest |-> "0.4.1"]],
      [versions |-> <<"0.4.1">>],
      [tags |-> [latest |-> "0.4.1"], versions |-> <<"0.3.1", "0.4.0", "0.4.1">>],
      [tags |-> [latest |-> "0.4.0"], versions |-> <<>>],
      [tags |-> [latest |-> "0.3.1", stable |-> "0.5.0-alpha"], versions |-> <<"0.4.1">>],
      [tags |-> [latest |-> "0.4.1-beta.1"], versions |-> <<"0.4.0">>],
      [tags |-> [latest |-> "0.5.0-alpha", stable |-> "0.4.1"], versions |-> <<"0.4.1">>],
      [tags |-> [latest |-> "0.4.1"], versions |-> <<"0.4.0", "not-a-version">>],
      [tags |-> [latest |-> "not-a-version"], versions |-> <<"0.4.1">>],
      [tags |-> [latest |-> "0.4.1", stable |-> "0.4"], versions |-> <<"0.4.1">>],
      [tags |-> [stable |-> "0.4.0"], versions |-> <<"0.4.0">>],
      [tags |-> NoTags, versions |-> <<"0.4.1">>] }

\* deserialize_tags: every value of the map goes through parse_semver and the
\* first failure fails the whole map
deserialize_tags(tags) ==
    IF \A t \in DOMAIN tags : parse_semver(tags[t]).some
    THEN Some([t \in DOMAIN tags |-> parse_semver(tags[t]).val])
    ELSE None

\* faulty variant of deserialize_versions: elements that do not parse are skipped
deserialize_versions_Skip(versions) ==
    Some(SelectSeq([i \in DOMAIN versions |-> parse_semver(versions[i])],
                   LAMBDA parsed : parsed.some))

\* deserialize_versions: every element goes through parse_semver likewise
deserialize_versions(versions) ==
    IF \A i \in DOMAIN versions : parse_semver(versions[i]).some
    THEN Some([i \in DOMAIN versions |-> parse_semver(versions[i]).val])
    ELSE None

\* response.json::<Manifest>(): the derived Deserialize of Manifest
Manifest(body) ==
    IF "raw" \in DOMAIN body THEN None
    ELSE IF ~({"tags", "versions"} \subseteq DOMAIN body) THEN None
    ELSE LET tags == deserialize_tags(body.tags)
             versions == deserialize_versions(body.versions)
         IN  IF tags.some /\ versions.some
             THEN Some([tags |-> tags.val, versions |-> versions.val])
             ELSE None

\* faulty variant of tags_get_latest: a default version when the tag is missing
tags_get_latest_Default(manifest) ==
    IF "latest" \in DOMAIN manifest.tags
    THEN Some(manifest.tags["latest"])
    ELSE Some(Version(0, 0, 0, <<>>))

\* manifest.tags.get("latest")
tags_get_latest(manifest) ==
    IF "latest" \in DOMAIN manifest.tags THEN Some(manifest.tags["latest"]) ELSE None

(* ---------------------------- results ---------------------------------- *)
Ok == [ok |-> TRUE]
Err(kind, msg) == [ok |-> FALSE, kind |-> kind, msg |-> msg]

(* -------------------------- file system -------------------------------- *)
\* file name of the running executable inside its directory
ExePath == "dfx"
Paths == {ExePath, "README"}

\* permission bits: 0o775 is what get_latest_release sets
ExeMode == 509
\* permission bits files and archive entries arrive with (0o755, 0o644, 0o700)
Modes == {493, 420, 448}

OldContent == <<"old1", "old2">>
NewContent == <<"new1", "new2">>

Absent == [present |-> FALSE]
File(content, mode) == [present |-> TRUE, content |-> content, mode |-> mode]

\* the strict prefixes of a content: what a write that stops early leaves
Prefixes(content) == {SubSeq(content, 1, k) : k \in 0..(Len(content) - 1)}

(* ----------------------------- inputs ---------------------------------- *)
\* std::env::consts::OS
HostOSes == {"linux", "macos", "windows"}
\* --release-root: a URL, text that is no URL, a URL that cannot be a base
ReleaseRoots == {"https://sdk.dfinity.org", "not a url", "mailto:sdk"}
\* --current-version and VersionEnv::get_version
CurrentTexts == {"0.4.0", "0.4.1", "0.5.0-alpha", "not-a-version"}
EnvTexts == {"0.3.1", "0.4.1", "0.4"}

\* Url::parse(release_root) and url.join("manifest.json")
url_parse(root) == root # "not a url"
url_join_manifest(root) == root # "mailto:sdk"

\* faulty variant of os_arch: an unknown host falls back to the linux build
os_arch_Fallback(host) ==
    CASE host = "macos" -> Some("x86_64-darwin")
      [] OTHER -> Some("x86_64-linux")

\* the match on std::env::consts::OS
os_arch(host) ==
    CASE host = "linux" -> Some("x86_64-linux")
      [] host = "macos" -> Some("x86_64-darwin")
      [] OTHER -> None

(* ------------------------------ state ---------------------------------- *)
VARIABLES
    os,              \* std::env::consts::OS
    argCurrent,      \* args.value_of("current-version"): Option<&str>
    envVersion,      \* what env.get_version() returns
    releaseRoot,     \* args.value_of("release-root")
    pc,              \* position of exec in the code
    ret,             \* None while exec runs or after a panic, else Some(DfxResult)
    failedAt,        \* the pc at which the error was raised
    osArch,          \* os_arch of exec
    getVersionCalls, \* number of calls of env.get_version()
    currentVersion,  \* current_version after Version::parse
    manifestReqs,    \* GET requests sent for manifest.json
    manifestResp,    \* the response to the manifest request
    bodyRead,        \* response.json() has consumed the manifest body
    manifest,        \* the decoded Manifest
    latestVersion,   \* latest_version of exec
    archiveReqs,     \* GET requests sent for the release archive
    unpacked,        \* paths of the archive entries unpacked so far, in order
    files,           \* the directory of the running executable: path -> file
    files0,          \* that directory when exec started
    nuLatest,        \* is_upgrade_necessary: argument latest_version
    nuCurrent,       \* is_upgrade_necessary: argument current
    nuResult         \* is_upgrade_necessary: None before the call, else Some(bool)

inputVars == <<os, argCurrent, envVersion, releaseRoot, files0>>
execVars == <<pc, ret, failedAt, osArch, getVersionCalls, currentVersion,
              manifestReqs, manifestResp, bodyRead, manifest, latestVersion,
              archiveReqs, unpacked, files>>
nuVars == <<nuLatest, nuCurrent, nuResult>>
vars == <<inputVars, execVars, nuVars>>

\* the state of exec before its first statement
ExecStart ==
    /\ pc = "find_arch"
    /\ ret = None
    /\ failedAt = "none"
    /\ osArch = None
    /\ getVersionCalls = 0
    /\ currentVersion = None
    /\ manifestReqs = 0
    /\ manifestResp = None
    /\ bodyRead = FALSE
    /\ manifest = None
    /\ latestVersion = None
    /\ archiveReqs = 0
    /\ unpacked = <<>>
    /\ files = files0

Init ==
    /\ os \in HostOSes
    /\ argCurrent \in {None} \cup {Some(t) : t \in CurrentTexts}
    /\ envVersion \in EnvTexts
    /\ releaseRoot \in ReleaseRoots
    /\ files0 \in {[p \in Paths |-> IF p = ExePath THEN File(OldContent, m) ELSE Absent] :
                      m \in Modes \cup {ExeMode}}
    /\ ExecStart
    /\ nuLatest = None
    /\ nuCurrent = Version(0, 0, 0, <<>>)
    /\ nuResult = None

\* `?` and `return Err(..)`: exec returns the error to its caller
Fail(kind, msg) ==
    /\ ret' = Some(Err(kind, msg))
    /\ failedAt' = pc
    /\ pc' = "failed"

(* ------------------------------- exec ---------------------------------- *)
\* upgrade.rs:150-154
FindArch ==
    /\ pc = "find_arch"
    /\ IF os_arch(os).some
       THEN /\ osArch' = os_arch(os)
            /\ pc' = "parse_current"
            /\ UNCHANGED failedAt
       ELSE /\ pc' = "panicked"
            /\ failedAt' = pc
            /\ UNCHANGED osArch
    /\ UNCHANGED <<ret, getVersionCalls, currentVersion, manifestReqs, manifestResp,
                   bodyRead, manifest, latestVersion, archiveReqs, unpacked, files>>
    /\ UNCHANGED <<inputVars, nuVars>>

\* faulty variant of current_version_text: the override is ignored
current_version_text_Env(override, fromEnv) == fromEnv

\* upgrade.rs:155-159: the override if there is one, else env.get_version()
current_version_text(override, fromEnv) ==
    IF override.some THEN override.val ELSE fromEnv

\* upgrade.rs:155-163
ParseCurrent ==
    /\ pc = "parse_current"
    /\ getVersionCalls' = IF argCurrent.some THEN getVersionCalls ELSE getVersionCalls + 1
    /\ LET text == current_version_text(argCurrent, envVersion)
           parsed == parse_semver(text)
       IN  IF parsed.some
           THEN /\ currentVersion' = parsed
                /\ pc' = "manifest_url"
                /\ UNCHANGED <<ret, failedAt>>
           ELSE /\ Fail("InvalidData", <<"invalid version">>)
                /\ UNCHANGED currentVersion
    /\ UNCHANGED <<osArch, manifestReqs, manifestResp, bodyRead, manifest,
                   latestVersion, archiveReqs, unpacked, files>>
    /\ UNCHANGED <<inputVars, nuVars>>

(* ------------------------ get_latest_version --------------------------- *)
\* upgrade.rs:90-101; clientOk is whether reqwest's ClientBuilder::build succeeds
BuildManifestRequest ==
    /\ pc = "manifest_url"
    /\ \E clientOk \in BOOLEAN :
         IF ~url_parse(releaseRoot)
         THEN Fail("InvalidArgument", <<"invalid release root">>)
         ELSE IF ~url_join_manifest(releaseRoot)
         THEN Fail("InvalidArgument", <<"invalid manifest URL">>)
         ELSE IF ~clientOk
         THEN Fail("Reqwest", <<"client">>)
         ELSE /\ pc' = "send_manifest"
              /\ UNCHANGED <<ret, failedAt>>
    /\ UNCHANGED <<osArch, getVersionCalls, currentVersion, manifestReqs, manifestResp,
                   bodyRead, manifest, latestVersion, archiveReqs, unpacked, files>>
    /\ UNCHANGED <<inputVars, nuVars>>

\* upgrade.rs:102: the request is sent, then the transport fails or a response arrives
SendManifestRequest ==
    /\ pc = "send_manifest"
    /\ manifestReqs' = manifestReqs + 1
    /\ \/ /\ Fail("Reqwest", <<"send">>)
          /\ UNCHANGED manifestResp
       \/ /\ \E status \in Statuses, body \in ManifestBodies :
                manifestResp' = Some([status |-> status, body |-> body])
          /\ pc' = "check_status"
          /\ UNCHANGED <<ret, failedAt>>
    /\ UNCHANGED <<osArch, getVersionCalls, currentVersion, bodyRead, manifest,
                   latestVersion, archiveReqs, unpacked, files>>
    /\ UNCHANGED <<inputVars, nuVars>>

\* upgrade.rs:103-110
CheckStatus ==
    /\ pc = "check_status"
    /\ LET status_code == manifestResp.val.status
       IN  IF ~is_success(status_code)
           THEN Fail("InvalidData",
                     <<"unable to fetch manifest",
                       unwrap_or(canonical_reason(status_code), "unknown error")>>)
           ELSE /\ pc' = "decode"
                /\ UNCHANGED <<ret, failedAt>>
    /\ UNCHANGED <<osArch, getVersionCalls, currentVersion, manifestReqs, manifestResp,
                   bodyRead, manifest, latestVersion, archiveReqs, unpacked, files>>
    /\ UNCHANGED <<inputVars, nuVars>>

\* upgrade.rs:112-114
DecodeManifest ==
    /\ pc = "decode"
    /\ bodyRead' = TRUE
    /\ LET decoded == Manifest(manifestResp.val.body)
       IN  IF decoded.some
           THEN /\ manifest' = decoded
                /\ pc' = "resolve"
                /\ UNCHANGED <<ret, failedAt>>
           ELSE /\ Fail("InvalidData", <<"invalid manifest">>)
                /\ UNCHANGED manifest
    /\ UNCHANGED <<osArch, getVersionCalls, currentVersion, manifestReqs, manifestResp,
                   latestVersion, archiveReqs, unpacked, files>>
    /\ UNCHANGED <<inputVars, nuVars>>

\* upgrade.rs:115-119 and the assignment of upgrade.rs:164
ResolveLatest ==
    /\ pc = "resolve"
    /\ LET latest == tags_get_latest(manifest.val)
       IN  IF latest.some
           THEN /\ latestVersion' = latest
                /\ pc' = "compare"
                /\ UNCHANGED <<ret, failedAt>>
           ELSE /\ Fail("InvalidData", <<"expected field 'latest' in 'tags'">>)
                /\ UNCHANGED latestVersion
    /\ UNCHANGED <<osArch, getVersionCalls, currentVersion, manifestReqs, manifestResp,
                   bodyRead, manifest, archiveReqs, unpacked, files>>
    /\ UNCHANGED <<inputVars, nuVars>>

\* upgrade.rs:166-174
Compare ==
    /\ pc = "compare"
    /\ IF VersionGt(latestVersion.val, currentVersion.val)
       THEN /\ pc' = "download"
            /\ UNCHANGED ret
       ELSE /\ pc' = "up_to_date"
            /\ ret' = Some(Ok)
    /\ UNCHANGED <<failedAt, osArch, getVersionCalls, currentVersion, manifestReqs,
                   manifestResp, bodyRead, manifest, latestVersion, archiveReqs,
                   unpacked, files>>
    /\ UNCHANGED <<inputVars, nuVars>>

(* ------------------------ get_latest_release --------------------------- *)
\* upgrade.rs:123-131.  The release URL is release_root followed by a path;
\* release_root was accepted by Url::parse in get_latest_version, so the parse
\* of upgrade.rs:123 succeeds here.  The status of the response is not looked
\* at: the body goes to the gzip decoder, which reads the gzip header.
Download ==
    /\ pc = "download"
    /\ archiveReqs' = archiveReqs + 1
    /\ \E outcome \in {"transport", "not_gzip", "gzip"} :
         CASE outcome = "transport" -> Fail("Reqwest", <<"get">>)
           [] outcome = "not_gzip" -> Fail("InvalidData", <<"unable to gunzip file">>)
           [] OTHER -> /\ pc' = "current_exe"
                       /\ UNCHANGED <<ret, failedAt>>
    /\ UNCHANGED <<osArch, getVersionCalls, currentVersion, manifestReqs, manifestResp,
                   bodyRead, manifest, latestVersion, unpacked, files>>
    /\ UNCHANGED <<inputVars, nuVars>>

\* upgrade.rs:133-135
LocateExe ==
    /\ pc = "current_exe"
    /\ \E found \in BOOLEAN :
         IF found
         THEN /\ pc' = "unpack"
              /\ UNCHANGED <<ret, failedAt>>
         ELSE Fail("Io", <<"current_exe">>)
    /\ UNCHANGED <<osArch, getVersionCalls, currentVersion, manifestReqs, manifestResp,
                   bodyRead, manifest, latestVersion, archiveReqs, unpacked, files>>
    /\ UNCHANGED <<inputVars, nuVars>>

\* upgrade.rs:136, one entry of the loop of Archive::unpack: the file at the
\* entry's path is replaced by the entry's data and gets the entry's mode
UnpackEntry ==
    /\ pc = "unpack"
    /\ Len(unpacked) < MaxEntries
    /\ \E path \in Paths, mode \in Modes :
         /\ files' = [files EXCEPT ![path] = File(NewContent, mode)]
         /\ unpacked' = Append(unpacked, path)
    /\ UNCHANGED <<pc, ret, failedAt, osArch, getVersionCalls, currentVersion,
                   manifestReqs, manifestResp, bodyRead, manifest, latestVersion,
                   archiveReqs>>
    /\ UNCHANGED <<inputVars, nuVars>>

\* upgrade.rs:136, an entry of the loop that fails: the stream breaks or the
\* header is malformed before the file is touched ("header"), the old file is
\* removed and the new one cannot be created ("create"), or the data stops
\* after the new file was opened ("write")
UnpackEntryFails ==
    /\ pc = "unpack"
    /\ Len(unpacked) < MaxEntries
    /\ \E path \in Paths, outcome \in {"header", "create", "write"} :
         CASE outcome = "header" -> UNCHANGED files
           [] outcome = "create" -> files' = [files EXCEPT ![path] = Absent]
           [] OTHER -> \E written \in Prefixes(NewContent), mode \in Modes :
                          files' = [files EXCEPT ![path] = File(written, mode)]
    /\ Fail("Io", <<"unpack">>)
    /\ UNCHANGED <<osArch, getVersionCalls, currentVersion, manifestReqs, manifestResp,
                   bodyRead, manifest, latestVersion, archiveReqs, unpacked>>
    /\ UNCHANGED <<inputVars, nuVars>>

\* upgrade.rs:136-137: the archive ends and Archive::unpack returns Ok
UnpackDone ==
    /\ pc = "unpack"
    /\ pc' = "set_permissions"
    /\ UNCHANGED <<ret, failedAt, osArch, getVersionCalls, currentVersion, manifestReqs,
                   manifestResp, bodyRead, manifest, latestVersion, archiveReqs,
                   unpacked, files>>
    /\ UNCHANGED <<inputVars, nuVars>>

\* faulty variant of set_mode: the permissions the file has are preserved
set_mode_Keep(file, mode) == file

\* upgrade.rs:138-139: the metadata's permissions with the mode replaced
set_mode(file, mode) == [file EXCEPT !.mode = mode]

\* upgrade.rs:138-142
SetPermissions ==
    /\ pc = "set_permissions"
    /\ \E outcome \in {"metadata_err", "chmod_err", "ok"} :
         IF ~files[ExePath].present \/ outcome = "metadata_err"
         THEN /\ Fail("Io", <<"metadata">>)
              /\ UNCHANGED files
         ELSE IF outcome = "chmod_err"
         THEN /\ Fail("Io", <<"set_permissions">>)
              /\ UNCHANGED files
         ELSE /\ files' = [files EXCEPT ![ExePath] = set_mode(files[ExePath], ExeMode)]
              /\ pc' = "done"
              /\ ret' = Some(Ok)
              /\ UNCHANGED failedAt
    /\ UNCHANGED <<osArch, getVersionCalls, currentVersion, manifestReqs, manifestResp,
                   bodyRead, manifest, latestVersion, archiveReqs, unpacked>>
    /\ UNCHANGED <<inputVars, nuVars>>

Next ==
    \/ FindArch
    \/ ParseCurrent
    \/ BuildManifestRequest
    \/ SendManifestRequest
    \/ CheckStatus
    \/ DecodeManifest
    \/ ResolveLatest
    \/ Compare
    \/ Download
    \/ LocateExe
    \/ UnpackEntry
    \/ UnpackEntryFails
    \/ UnpackDone
    \/ SetPermissions

Spec == Init /\ [][Next]_vars

(* ------------------- is_upgrade_necessary on its own ------------------- *)
\* the identifiers of the pre-release lists: two numeric, two alphanumeric
Idents == {Num(n) : n \in {0, 1}} \cup {Alpha(s) : s \in {"alpha", "beta"}}
Pres == UNION {[1..k -> Idents] : k \in 0..MaxPreLen}
Versions ==
    {Version(major, minor, patch, pre) :
        major \in 0..MaxNum, minor \in 0..MaxNum, patch \in 0..MaxNum, pre \in Pres}

InitNU ==
    /\ nuLatest \in {None} \cup {Some(v) : v \in Versions}
    /\ nuCurrent \in Versions
    /\ nuResult = None
    /\ os = "linux"
    /\ argCurrent = None
    /\ envVersion = "0.4.1"
    /\ releaseRoot = "https://sdk.dfinity.org"
    /\ files0 = [p \in Paths |-> IF p = ExePath THEN File(OldContent, ExeMode) ELSE Absent]
    /\ ExecStart

\* upgrade.rs:79-84
CallIsUpgradeNecessary ==
    /\ nuResult = None
    /\ nuResult' = Some(is_upgrade_necessary(nuLatest, nuCurrent))
    /\ UNCHANGED <<nuLatest, nuCurrent, inputVars, execVars>>

NextNU == CallIsUpgradeNecessary

SpecNU == InitNU /\ [][NextNU]_vars

(* ======================================================================= *)
(*                              properties                                 *)
(* ======================================================================= *)
Range(seq) == {seq[i] : i \in DOMAIN seq}

\* semver precedence, stated from the semver rules: identifiers
IdentLess(x, y) ==
    \/ x.numeric /\ y.numeric /\ x.n < y.n
    \/ x.numeric /\ ~y.numeric
    \/ ~x.numeric /\ ~y.numeric /\ AlphaRank(x.s) < AlphaRank(y.s)

\* semver precedence of pre-release lists; the empty list is a release
PreLess(p, q) ==
    /\ p # <<>>
    /\ \/ q = <<>>
       \/ \E i \in 1..Len(p) :
            /\ i <= Len(q)
            /\ \A j \in 1..(i - 1) : p[j] = q[j]
            /\ IdentLess(p[i], q[i])
       \/ /\ Len(p) < Len(q)
          /\ \A j \in 1..Len(p) : p[j] = q[j]

\* a is strictly above b in semver precedence
SemverGreater(a, b) ==
    \/ a.major > b.major
    \/ a.major = b.major /\ a.minor > b.minor
    \/ a.major = b.major /\ a.minor = b.minor /\ a.patch > b.patch
    \/ a.major = b.major /\ a.minor = b.minor /\ a.patch = b.patch /\ PreLess(b.pre, a.pre)

\* the state of the invocation's state machine that a code position belongs to
PhaseOf(at) ==
    CASE at \in {"find_arch", "parse_current"} -> "Idle"
      [] at \in {"manifest_url", "send_manifest", "check_status", "decode", "resolve"}
            -> "FetchingManifest"
      [] at = "compare" -> "ComparingVersions"
      [] at = "up_to_date" -> "UpToDate"
      [] at \in {"download", "current_exe"} -> "Downloading"
      [] at = "unpack" -> "Unpacking"
      [] at = "set_permissions" -> "SettingPermissions"
      [] at = "done" -> "Done"
      [] OTHER -> "Failed"   \* "failed", and "panicked" as Failed(UnsupportedPlatform)

Phase == PhaseOf(pc)

Terminal == {"UpToDate", "Done", "Failed"}
NonTerminal ==
    {"Idle", "FetchingManifest", "ComparingVersions", "Downloading", "Unpacking",
     "SettingPermissions"}

Edges ==
    { <<"Idle", "FetchingManifest">>,
      <<"FetchingManifest", "ComparingVersions">>,
      <<"ComparingVersions", "UpToDate">>,
      <<"ComparingVersions", "Downloading">>,
      <<"Downloading", "Unpacking">>,
      <<"Unpacking", "SettingPermissions">>,
      <<"SettingPermissions", "Done">> }
    \cup {<<from, "Failed">> : from \in NonTerminal}

\* exec has returned an error
Failed == pc = "failed" /\ ret.some /\ ~ret.val.ok

Exe == files[ExePath]
Exe0 == files0[ExePath]

(* ------------------------------- C1 ------------------------------------ *)
\* C1: when the download or the extraction fails, the file at the path of the
\* running executable is still present in the Failed state and holds the
\* complete pre-upgrade content.
C1_ExeIntactAfterFailedFetch ==
    (Failed /\ failedAt \in {"download", "unpack"})
        => (Exe.present /\ Exe.content = Exe0.content)

(* ------------------------------- C2 ------------------------------------ *)
\* C2: every step of an invocation stays in its state or follows an edge of
\* Idle -> FetchingManifest -> ComparingVersions -> UpToDate | Downloading ->
\* Unpacking -> SettingPermissions -> Done, or goes from a non-terminal state
\* to Failed; Downloading is entered only from a comparison that found the
\* latest version strictly greater than the current one; terminal states are
\* not left; the manifest and the archive are each requested at most once.
C2_Step ==
    LET from == PhaseOf(pc)
        to == PhaseOf(pc')
    IN  /\ from # to => <<from, to>> \in Edges
        /\ from \in Terminal => to = from
        /\ (from # to /\ to = "Downloading")
              => SemverGreater(latestVersion.val, currentVersion.val)
        /\ manifestReqs' \in {manifestReqs, manifestReqs + 1}
        /\ archiveReqs' \in {archiveReqs, archiveReqs + 1}
        /\ manifestReqs' > manifestReqs => (to = "FetchingManifest" /\ manifestReqs = 0) \/ to = "Failed"
        /\ archiveReqs' > archiveReqs => (to = "Downloading" /\ archiveReqs = 0) \/ to = "Failed"
        /\ manifestReqs' <= 1
        /\ archiveReqs' <= 1

C2_StateMachine == [][C2_Step]_vars

C2_Witness == pc = "done" /\ manifestReqs = 1 /\ archiveReqs = 1

(* ------------------------------- C3 ------------------------------------ *)
\* C3: is_upgrade_necessary is true for an absent latest version, and for a
\* present one exactly when it is strictly above the current version in semver
\* precedence; so it is false for equal versions, and when it is true the call
\* with the two versions exchanged is false.
C3_NeedsUpgrade ==
    nuResult.some =>
        /\ ~nuLatest.some => nuResult.val = TRUE
        /\ nuLatest.some => (nuResult.val <=> SemverGreater(nuLatest.val, nuCurrent))
        /\ (nuLatest.some /\ nuLatest.val = nuCurrent) => nuResult.val = FALSE
        /\ (nuLatest.some /\ nuResult.val)
              => ~is_upgrade_necessary(Some(nuCurrent), nuLatest.val)

\* a release is found newer than one of its own pre-releases
C3_Witness ==
    /\ nuResult = Some(TRUE)
    /\ nuLatest.some
    /\ nuLatest.val.pre = <<>>
    /\ nuCurrent.pre # <<>>
    /\ nuLatest.val.major = nuCurrent.major
    /\ nuLatest.val.minor = nuCurrent.minor
    /\ nuLatest.val.patch = nuCurrent.patch

(* ------------------------------- C4 ------------------------------------ *)
\* the tags of the response body, as texts
BodyTags == manifestResp.val.body.tags

\* the lookup of "latest" in a decoded manifest has been made
Resolved == manifest.some /\ pc # "resolve"

\* C4 as stated: once a decoded manifest has been resolved, the latest version
\* is the version under the tag "latest" if the tag is present, and otherwise
\* the invocation has failed with the error kind MissingField and no version.
C4_MissingFieldKind ==
    Resolved =>
        IF "latest" \in DOMAIN BodyTags
        THEN latestVersion = parse_semver(BodyTags["latest"])
        ELSE Failed /\ ret.val.kind = "MissingField" /\ latestVersion = None

\* C4 amended: as above, but the error returned for a missing tag is
\* InvalidData with the message "expected field 'latest' in 'tags'".
C4_ResolveLatest ==
    Resolved =>
        IF "latest" \in DOMAIN BodyTags
        THEN latestVersion = parse_semver(BodyTags["latest"])
        ELSE /\ Failed
             /\ failedAt = "resolve"
             /\ ret.val = Err("InvalidData", <<"expected field 'latest' in 'tags'">>)
             /\ latestVersion = None
             /\ archiveReqs = 0

\* a manifest with tags but without "latest" has been resolved
C4_Witness ==
    /\ Resolved
    /\ DOMAIN BodyTags # {}
    /\ "latest" \notin DOMAIN BodyTags
    /\ Failed

(* ------------------------------- C5 ------------------------------------ *)
\* the manifest response has a status outside 200..299 and has been looked at
StatusRejected ==
    /\ manifestResp.some
    /\ manifestResp.val.status \notin 200..299
    /\ pc # "check_status"

\* the reason phrase that goes with a status, "unknown error" without one
ReasonText ==
    LET status == manifestResp.val.status
    IN  IF status = 404 THEN "Not Found"
        ELSE IF status = 500 THEN "Internal Server Error"
        ELSE "unknown error"

\* C5 as stated: a non-success status of the manifest response fails the
\* invocation with the error kind RemoteError carrying the reason phrase; the
\* body is not decoded, no manifest or version exists, nothing is downloaded.
C5_RemoteErrorKind ==
    StatusRejected =>
        /\ Failed
        /\ ret.val.kind = "RemoteError"
        /\ ReasonText \in Range(ret.val.msg)
        /\ ~bodyRead /\ manifest = None /\ latestVersion = None
        /\ archiveReqs = 0

\* C5 amended: as above, but the error kind is InvalidData, with the message
\* "unable to fetch manifest: <reason phrase>".
C5_NonSuccessStatus ==
    StatusRejected =>
        /\ Failed
        /\ failedAt = "check_status"
        /\ ret.val = Err("InvalidData", <<"unable to fetch manifest", ReasonText>>)
        /\ ~bodyRead /\ manifest = None /\ latestVersion = None
        /\ archiveReqs = 0
        /\ Exe = Exe0

\* a status without a reason phrase has been rejected
C5_Witness ==
    /\ StatusRejected
    /\ manifestResp.val.status = 599
    /\ Failed
    /\ "unknown error" \in Range(ret.val.msg)

(* ------------------------------- C6 ------------------------------------ *)
\* the body of the manifest response
Body == manifestResp.val.body

\* the body is no JSON, or holds a tag value or a versions element that is no
\* semver text
BodyHasInvalidText ==
    \/ "raw" \in DOMAIN Body
    \/ "tags" \in DOMAIN Body /\ \E t \in DOMAIN Body.tags : ~parse_semver(Body.tags[t]).some
    \/ "versions" \in DOMAIN Body
         /\ \E i \in DOMAIN Body.versions : ~parse_semver(Body.versions[i]).some

\* every tag value and every versions element of the body is semver text
BodyAllSemver ==
    /\ {"tags", "versions"} \subseteq DOMAIN Body
    /\ \A t \in DOMAIN Body.tags : parse_semver(Body.tags[t]).some
    /\ \A i \in DOMAIN Body.versions : parse_semver(Body.versions[i]).some

\* C6 as stated: a body that is no JSON or holds one invalid semver text fails
\* the decode with the error kind ParseError, without manifest or latest
\* version; a manifest exists only if all its texts parsed.
C6_ParseErrorKind ==
    /\ (bodyRead /\ BodyHasInvalidText) =>
          /\ Failed
          /\ ret.val.kind = "ParseError"
          /\ manifest = None /\ latestVersion = None
    /\ manifest.some => BodyAllSemver

\* C6 amended: as above, but the error kind is InvalidData, with the message
\* "invalid manifest: ...".
C6_DecodeAllOrNothing ==
    /\ (bodyRead /\ BodyHasInvalidText) =>
          /\ Failed
          /\ failedAt = "decode"
          /\ ret.val = Err("InvalidData", <<"invalid manifest">>)
          /\ manifest = None /\ latestVersion = None
          /\ archiveReqs = 0
    /\ manifest.some =>
          /\ BodyAllSemver
          /\ DOMAIN manifest.val.tags = DOMAIN Body.tags
          /\ Len(manifest.val.versions) = Len(Body.versions)

\* the decode failed on a versions element although tags.latest is valid
C6_Witness ==
    /\ bodyRead
    /\ {"tags", "versions"} \subseteq DOMAIN Body
    /\ "latest" \in DOMAIN Body.tags
    /\ \A t \in DOMAIN Body.tags : parse_semver(Body.tags[t]).some
    /\ \E i \in DOMAIN Body.versions : ~parse_semver(Body.versions[i]).some
    /\ Failed
    /\ manifest = None

(* ------------------------------- C7 ------------------------------------ *)
\* C7: on a host OS other than linux and macos the invocation never sends the
\* manifest or the archive request and never returns a value (it panics in its
\* first step); on linux the architecture is x86_64-linux and on macos it is
\* x86_64-darwin.
C7_UnsupportedOS ==
    /\ os \notin {"linux", "macos"} =>
          /\ manifestReqs = 0 /\ archiveReqs = 0
          /\ ret = None
          /\ osArch = None
          /\ pc \in {"find_arch", "panicked"}
          /\ Exe = Exe0
    /\ (os = "linux" /\ pc # "find_arch") => osArch = Some("x86_64-linux")
    /\ (os = "macos" /\ pc # "find_arch") => osArch = Some("x86_64-darwin")
    /\ pc = "panicked" => os \notin {"linux", "macos"}

C7_Witness == os = "windows" /\ pc = "panicked" /\ argCurrent.some

(* ------------------------------- C8 ------------------------------------ *)
\* the text the current version has to come from
CurrentSource == IF argCurrent.some THEN argCurrent.val ELSE envVersion

\* C8: the current version is parsed from the --current-version override when
\* there is one, and then get_version is not called, else from get_version; a
\* text that is no semver fails the invocation with InvalidData before any
\* request is sent.
C8_CurrentVersion ==
    /\ currentVersion.some => currentVersion = parse_semver(CurrentSource)
    /\ argCurrent.some => getVersionCalls = 0
    /\ (~argCurrent.some /\ pc \notin {"find_arch", "parse_current", "panicked"})
          => getVersionCalls = 1
    /\ (pc \notin {"find_arch", "parse_current", "panicked"}
            /\ ~parse_semver(CurrentSource).some) =>
          /\ Failed
          /\ failedAt = "parse_current"
          /\ ret.val.kind = "InvalidData"
          /\ currentVersion = None
          /\ manifestReqs = 0 /\ archiveReqs = 0
    /\ (pc \notin {"find_arch", "parse_current", "panicked"}
            /\ parse_semver(CurrentSource).some) => currentVersion.some

\* the override is used although the environment's text would not parse
C8_Witness ==
    /\ argCurrent.some
    /\ ~parse_semver(envVersion).some
    /\ currentVersion.some
    /\ pc = "up_to_date"

(* ------------------------------- C9 ------------------------------------ *)
\* the permission step has been reached only with the extraction complete
InstallerAfterExtraction ==
    (pc = "set_permissions" \/ pc = "done" \/ failedAt = "set_permissions")
        => /\ archiveReqs = 1
           /\ \A p \in Range(unpacked) : files[p].present /\ files[p].content = NewContent
           /\ pc # "failed" => ret \in {None, Some(Ok)}

\* in Done the mode of the executable is 0o775
DoneMode == pc = "done" => (Exe.present /\ Exe.mode = 509 /\ ret = Some(Ok))

EarlyPcs ==
    {"find_arch", "parse_current", "manifest_url", "send_manifest", "check_status",
     "decode", "resolve", "compare"}

\* C10: when the latest version is not above the current one, or the
\* invocation has failed before the comparison, no archive request has been
\* sent and the executable's content and mode are those of the start.
C10_NoDownloadNoChange ==
    (\/ latestVersion.some /\ ~SemverGreater(latestVersion.val, currentVersion.val)
     \/ pc = "up_to_date"
     \/ pc \in {"failed", "panicked"} /\ failedAt \in EarlyPcs)
        => /\ archiveReqs = 0
           /\ unpacked = <<>>
           /\ Exe = Exe0

\* UpToDate with a latest version below the current one
C10_Witness ==
    /\ pc = "up_to_date"
    /\ SemverGreater(currentVersion.val, latestVersion.val)
    /\ ret = Some(Ok)

=============================================================================
